---- MODULE Spec2Model ----
(***************************************************************************)
(* A model of the X11 window capture element of gst-ximageredux            *)
(* (src/src/ximageredux/imp.rs).                                           *)
(*                                                                         *)
(* Two kinds of threads touch the mutex-guarded State record: the host     *)
(* thread, which runs the element's virtual methods (start, stop, caps,    *)
(* set_caps, create) and the property setters, and the watcher threads     *)
(* spawned by start.  The host thread's position is `pc`; every step of a  *)
(* method is one critical section of the state mutex, and a step that     *)
(* sends a request leaves the host holding the mutex while the request is  *)
(* in flight, until the step whose name ends in _reply.                    *)
(***************************************************************************)
EXTENDS Integers, Sequences, FiniteSets, TLC

\* ------------------------------------------------------------ bounds
MaxDim == 2        \* window widths and heights range over 1..MaxDim
MaxWatchers == 2   \* watcher threads spawned over a run (calls of start)
MaxFetches == 2    \* GetImage replies over a run (distinct frame buffers)
MaxQueue == 1      \* X events queued on a watcher connection
MaxTime == 3       \* wall clock, in milliseconds

\* ------------------------------------------------------------ values
\* Option<T>: None is the empty sequence, Some(v) the one-element sequence.
None == << >>
Some(v) == << v >>
IsSome(o) == o /= << >>
IsNone(o) == o = << >>
Unwrap(o) == o[1]

Dims == 1..MaxDim
Sizes == [width : Dims, height : Dims]
Positions == [x : {0, 1}, y : {0}]
Visibilities == {"Unknown", "Visible", "Hidden"}
Tids == 1..MaxWatchers
\* Negotiated frame rates <<numerator, denominator>>.
Framerates == {<<500, 1>>, <<0, 1>>}

\* Red, green and blue masks of a root visual: RGB and BGR in 8 bits each,
\* 5-6-5; a u32 is written as its four bytes, the most significant first.
Masks == { << <<0, 255, 0, 0>>, <<0, 0, 255, 0>>, <<0, 0, 0, 255>> >>,
           << <<0, 0, 0, 255>>, <<0, 0, 255, 0>>, <<0, 255, 0, 0>> >>,
           << <<0, 0, 248, 0>>, <<0, 0, 7, 224>>, <<0, 0, 0, 31>> >> }
\* cfg(target_endian) of the build; the setup's bitmap_format_bit_order; the
\* bits_per_pixel of the window's depth; the root visual's masks.
Platforms == [target : {"little", "big"},
              bit_order : {"LsbFirst", "MsbFirst"},
              bpp : {16, 24, 32},
              masks : Masks]
Desktop == [target |-> "little", bit_order |-> "LsbFirst", bpp |-> 32,
            masks |-> << <<0, 255, 0, 0>>, <<0, 0, 255, 0>>, <<0, 0, 0, 255>> >>]

VARIABLES
    \* struct State
    connection,         \* Option: the producer connection is open
    xid,                \* Option<Xid>
    show_cursor,
    needs_size_update,
    position,           \* Option<Position>
    size,               \* Option<Size>
    frame_duration,     \* milliseconds
    last_frame_time,    \* Option<ClockTime>
    resize_run,         \* Option<Arc<AtomicBool>>: the watcher it belongs to
    resize_handle,      \* Option<JoinHandle>: the watcher it joins
    last_frame,         \* Option<Buffer>
    visibility,
    \* the state mutex and the element
    poisoned,           \* a thread panicked while holding the state mutex
    panicked,           \* a virtual method panicked
    \* the host thread
    pc,                 \* position of the host thread
    ctx,                \* caller of update_size_if_needed
    frame,              \* create's local `frame`
    handle,             \* stop's local `handle`
    error,              \* the error `e` get_frame returned to create
    \* the watcher threads
    run,                \* the AtomicBool of each watcher
    watcher,            \* pc, last_size and pending events of each watcher
    spawned,            \* number of threads spawned so far
    \* the X server
    win,                \* geometry of the captured window
    hidden,             \* the window carries the hidden-state atom
    fetches,            \* GetImage replies served
    now,                \* wall clock
    platform,           \* the display's setup and root visual, and the build target
    \* what the element's users observe
    result,             \* outcome of the last completed virtual method (frame: the
                        \* buffer of create, the format of caps)
    events,             \* notifications and signals of the running reconciliation
    recon,              \* cached and re-queried size of the running reconciliation
    produced_at,        \* wall-clock time at which last_frame was captured
    negotiated          \* the cached size when create last called negotiate()

state_vars == << connection, xid, show_cursor, needs_size_update, position, size,
                 frame_duration, last_frame_time, resize_run, resize_handle,
                 last_frame, visibility >>
mutex_vars == << poisoned, panicked >>
host_vars == << pc, ctx, frame, handle, error >>
watcher_vars == << run, watcher, spawned >>
server_vars == << win, hidden, fetches, now, platform >>
observer_vars == << result, events, recon, produced_at, negotiated >>
vars == << state_vars, mutex_vars, host_vars, watcher_vars, server_vars, observer_vars >>

NoResult == [op |-> "none", outcome |-> "none", frame |-> None, error |-> "none",
             within |-> FALSE]
NoRecon == [old |-> None, new |-> None, old_pos |-> None, new_pos |-> None]
\* A watcher thread: its position, its local last_size and the events pending
\* on its connection.
Unborn == [pc |-> "unborn", last_size |-> None, queue |-> << >>]

\* #[derive(Default)] State, with needs_size_update defaulting to true.
InitElement ==
    /\ connection = None
    /\ xid = None
    /\ show_cursor = FALSE
    /\ needs_size_update = TRUE
    /\ position = None
    /\ size = None
    /\ frame_duration = 0
    /\ last_frame_time = None
    /\ resize_run = None
    /\ resize_handle = None
    /\ last_frame = None
    /\ visibility = "Unknown"
    /\ poisoned = FALSE
    /\ panicked = FALSE
    /\ pc = "idle"
    /\ ctx = "none"
    /\ frame = None
    /\ handle = None
    /\ error = "none"
    /\ run = [t \in Tids |-> FALSE]
    /\ watcher = [t \in Tids |-> Unborn]
    /\ spawned = 0
    /\ win \in [x : {0}, y : {0}, width : {1}, height : {1}]
    /\ hidden = FALSE
    /\ fetches = 0
    /\ now = 0
    /\ result = NoResult
    /\ events = << >>
    /\ recon = NoRecon
    /\ produced_at = None
    /\ negotiated = None

\* The element on a little-endian desktop: 32 bits per pixel, LsbFirst.
Init == InitElement /\ platform = Desktop

\* The element on every platform of Platforms.
InitFormat == InitElement /\ platform \in Platforms

\* ------------------------------------------------------------ the state mutex
\* The host thread holds the state mutex across steps only while a request it
\* sent is in flight (the guard lives until the reply) and while stop joins.
InFlight == pc \in {"get_size_reply", "get_window_visibility_reply", "get_frame_reply",
                    "cursor_reply", "get_video_format_reply"}
LockHeld == InFlight \/ pc = "stop_join"

\* A call of a virtual method begins: the host is between calls and no earlier
\* call panicked.
Callable == pc = "idle" /\ ~panicked

Begin(op) == [NoResult EXCEPT !.op = op, !.outcome = "running"]

\* The running virtual method goes on at `label`.
Goto(label) ==
    /\ pc' = label
    /\ UNCHANGED << ctx, frame, handle, error, result, mutex_vars >>

\* The running virtual method ends with `outcome`; e is the error it logged.
End(outcome, fr, e) ==
    /\ pc' = "idle"
    /\ ctx' = "none"
    /\ frame' = None
    /\ handle' = None
    /\ error' = "none"
    /\ result' = [result EXCEPT !.outcome = outcome, !.frame = fr, !.error = e]
    /\ events' = << >>
    /\ recon' = NoRecon

\* The running virtual method returns.
Return(outcome, fr, e) ==
    /\ End(outcome, fr, e)
    /\ UNCHANGED mutex_vars

\* The running virtual method panics; a guard held at the time poisons the mutex.
Panic(holding) ==
    /\ End("panic", None, "panic")
    /\ panicked' = TRUE
    /\ poisoned' = (poisoned \/ holding)

\* A virtual method that runs in one step ends with `outcome`.
Finish(op, outcome, e) ==
    /\ result' = [Begin(op) EXCEPT !.outcome = outcome, !.error = e]
    /\ UNCHANGED << host_vars, events, recon >>

\* ------------------------------------------------------------ properties
set_xid(v) ==
    /\ Callable
    /\ xid' = Some(v)
    /\ UNCHANGED << connection, show_cursor, needs_size_update, position, size,
                    frame_duration, last_frame_time, resize_run, resize_handle,
                    last_frame, visibility >>
    /\ UNCHANGED << mutex_vars, host_vars, watcher_vars, server_vars, observer_vars >>

set_show_cursor(b) ==
    /\ Callable
    /\ show_cursor' = b
    /\ UNCHANGED << connection, xid, needs_size_update, position, size,
                    frame_duration, last_frame_time, resize_run, resize_handle,
                    last_frame, visibility >>
    /\ UNCHANGED << mutex_vars, host_vars, watcher_vars, server_vars, observer_vars >>

\* ------------------------------------------------------------ start
\* open_connection: Connection::connect, then the handle is stored.
open_connection(connected) == IF connected THEN Some("xcb") ELSE connection

\* start: open_connection fails (an error), or the window id is unset
\* (get_connection(..).unwrap() panics under the guard), or the run flag is
\* stored and the watcher thread spawned.
start ==
    /\ Callable
    /\ spawned < MaxWatchers
    /\ \E connected \in BOOLEAN :
        /\ connection' = open_connection(connected)
        /\ IF ~connected
           THEN /\ Finish("start", "err", "connect")
                /\ UNCHANGED << resize_run, resize_handle, mutex_vars, watcher_vars >>
           ELSE IF IsNone(xid)
           THEN /\ Finish("start", "panic", "panic")
                /\ panicked' = TRUE
                /\ poisoned' = TRUE
                /\ UNCHANGED << resize_run, resize_handle, watcher_vars >>
           ELSE LET t == spawned + 1 IN
                /\ Finish("start", "ok", "none")
                /\ resize_run' = Some(t)
                /\ resize_handle' = Some(t)
                /\ run' = [run EXCEPT ![t] = TRUE]
                /\ watcher' = [watcher EXCEPT ![t].pc = "connect"]
                /\ spawned' = t
                /\ UNCHANGED mutex_vars
    /\ UNCHANGED << xid, show_cursor, needs_size_update, position, size, frame_duration,
                    last_frame_time, last_frame, visibility >>
    /\ UNCHANGED << server_vars, produced_at, negotiated >>

\* ------------------------------------------------------------ stop
\* if let Some(run) = ..resize_run.take() { run.store(false) }
stop ==
    /\ Callable
    /\ resize_run' = None
    /\ run' = IF IsSome(resize_run) THEN [run EXCEPT ![Unwrap(resize_run)] = FALSE] ELSE run
    /\ pc' = "stop_take"
    /\ result' = Begin("stop")
    /\ UNCHANGED << connection, xid, show_cursor, needs_size_update, position, size,
                    frame_duration, last_frame_time, resize_handle, last_frame, visibility >>
    /\ UNCHANGED << mutex_vars, ctx, frame, handle, error, watcher, spawned, server_vars,
                    events, recon, produced_at, negotiated >>

\* if let Some(handle) = self.state.lock().unwrap().resize_handle.take():
\* the guard of the scrutinee lives through the body, so the join runs under it.
stop_take_handle ==
    /\ pc = "stop_take"
    /\ resize_handle' = None
    /\ handle' = resize_handle
    /\ pc' = IF IsSome(resize_handle) THEN "stop_join" ELSE "stop_close"
    /\ UNCHANGED << connection, xid, show_cursor, needs_size_update, position, size,
                    frame_duration, last_frame_time, resize_run, last_frame, visibility >>
    /\ UNCHANGED << mutex_vars, ctx, frame, error, watcher_vars, server_vars,
                    observer_vars >>

\* The thread has ended: normally, or by a panic.
Ended(t) == watcher[t].pc \in {"done", "connfail", "lockpanic"}

\* stop without the join: the handle is dropped and the thread detached.
stop_join_detached ==
    /\ pc = "stop_join"
    /\ pc' = "stop_close"
    /\ handle' = None
    /\ UNCHANGED << mutex_vars, ctx, frame, error, result, events, recon >>
    /\ UNCHANGED << state_vars, watcher_vars, server_vars, produced_at, negotiated >>

\* handle.join().unwrap(), the state guard still held.
stop_join ==
    /\ pc = "stop_join"
    /\ Ended(Unwrap(handle))
    /\ IF watcher[Unwrap(handle)].pc = "done"
       THEN /\ pc' = "stop_close"
            /\ handle' = None
            /\ UNCHANGED << mutex_vars, ctx, frame, error, result, events, recon >>
       ELSE Panic(TRUE)
    /\ UNCHANGED << state_vars, watcher_vars, server_vars, produced_at, negotiated >>

\* self.state.lock().unwrap().connection.take(); Ok(())
stop_close ==
    /\ pc = "stop_close"
    /\ connection' = None
    /\ Return("ok", None, "none")
    /\ UNCHANGED << xid, show_cursor, needs_size_update, position, size, frame_duration,
                    last_frame_time, resize_run, resize_handle, last_frame, visibility >>
    /\ UNCHANGED << watcher_vars, server_vars, produced_at, negotiated >>

\* ------------------------------------------------------------ the watcher thread
\* The events the watcher selects. For the observer a ConfigureNotify also tells
\* whether its size differs from the size the window had before, which is the
\* size the ConfigureNotify before it carried.
ConfigureNotify(sz, resized) ==
    [type |-> "ConfigureNotify", size |-> Some(sz), resized |-> resized]
PropertyNotify == [type |-> "PropertyNotify", size |-> None, resized |-> FALSE]

\* Connection::connect(None).unwrap(), ChangeWindowAttributes, flush().unwrap()
watcher_connect(t) ==
    /\ watcher[t].pc = "connect"
    /\ \E connected \in BOOLEAN :
        watcher' = [watcher EXCEPT ![t].pc = IF connected THEN "check" ELSE "connfail"]
    /\ UNCHANGED << state_vars, mutex_vars, host_vars, run, spawned, server_vars,
                    observer_vars >>

\* while run.load(Ordering::SeqCst); the locals die with the thread
watcher_check_run(t) ==
    /\ watcher[t].pc = "check"
    /\ watcher' = [watcher EXCEPT ![t] = IF run[t] THEN [@ EXCEPT !.pc = "poll"]
                                         ELSE [Unborn EXCEPT !.pc = "done"]]
    /\ UNCHANGED << state_vars, mutex_vars, host_vars, run, spawned, server_vars,
                    observer_vars >>

\* The watcher's classification of an event: does it go on to mark the flag?
\* A ConfigureNotify of the size held in last_size is skipped (continue).
Marks(last_size, ev) ==
    \/ ev.type = "PropertyNotify"
    \/ /\ ev.type = "ConfigureNotify"
       /\ (IsNone(last_size) \/ Unwrap(last_size) /= Unwrap(ev.size))

\* last_size after the event: it is stored only while it is still None.
NextLastSize(last_size, ev) ==
    IF ev.type = "ConfigureNotify" /\ IsNone(last_size) THEN ev.size ELSE last_size

\* conn.poll_for_event(): no event (then the 50 ms sleep), or one event classified.
watcher_poll(t) ==
    /\ watcher[t].pc = "poll"
    /\ IF watcher[t].queue = << >>
       THEN watcher' = [watcher EXCEPT ![t].pc = "check"]
       ELSE LET ev == Head(watcher[t].queue) IN
            watcher' = [watcher EXCEPT
                ![t].queue = Tail(@),
                ![t].last_size = NextLastSize(@, ev),
                ![t].pc = IF Marks(watcher[t].last_size, ev) THEN "mark" ELSE "check"]
    /\ UNCHANGED << state_vars, mutex_vars, host_vars, run, spawned, server_vars,
                    observer_vars >>

\* state_arc.lock().unwrap().needs_size_update = true; then the sleep
watcher_mark(t) ==
    /\ watcher[t].pc = "mark"
    /\ ~LockHeld
    /\ IF poisoned
       THEN /\ watcher' = [watcher EXCEPT ![t] = [Unborn EXCEPT !.pc = "lockpanic"]]
            /\ UNCHANGED needs_size_update
       ELSE /\ watcher' = [watcher EXCEPT ![t].pc = "check"]
            /\ needs_size_update' = TRUE
    /\ UNCHANGED << connection, xid, show_cursor, position, size, frame_duration,
                    last_frame_time, resize_run, resize_handle, last_frame, visibility >>
    /\ UNCHANGED << mutex_vars, host_vars, run, spawned, server_vars, observer_vars >>

\* ------------------------------------------------------------ the X server
\* The watchers whose connection has selected the window's events.
Subscribed(t) == watcher[t].pc \in {"check", "poll", "mark"}

Deliver(ev) ==
    /\ \A t \in Tids : Subscribed(t) => Len(watcher[t].queue) < MaxQueue
    /\ watcher' = [t \in Tids |->
                      IF Subscribed(t) THEN [watcher[t] EXCEPT !.queue = Append(@, ev)]
                      ELSE watcher[t]]

\* The window is moved or resized: a ConfigureNotify to every subscriber.
ConfigureWindow ==
    /\ \E p \in Positions, sz \in Sizes :
        /\ win' = [x |-> p.x, y |-> p.y, width |-> sz.width, height |-> sz.height]
        /\ win' /= win
        /\ Deliver(ConfigureNotify(sz, sz.width /= win.width \/ sz.height /= win.height))
    /\ UNCHANGED << state_vars, mutex_vars, host_vars, run, spawned, hidden, fetches, now,
                    platform,
                    observer_vars >>

\* A property of the window changes (the hidden-state atom or another one).
ChangeProperty ==
    /\ \E h \in BOOLEAN : hidden' = h
    /\ Deliver(PropertyNotify)
    /\ UNCHANGED << state_vars, mutex_vars, host_vars, run, spawned, win, fetches, now,
                    platform, observer_vars >>

\* ------------------------------------------------------------ update_size_if_needed
\* get_connection: the window id, then connection.as_ref().unwrap().
get_connection ==
    IF IsNone(xid) THEN "err" ELSE IF IsNone(connection) THEN "panic" ELSE "ok"

\* The caller of update_size_if_needed goes on at `label` (get_frame on behalf
\* of create when `caller` is given), the reconciliation's notifications
\* delivered, and with the error e it was returned.
Continue(label, caller, ev, rc, e) ==
    /\ pc' = label
    /\ ctx' = caller
    /\ events' = ev
    /\ recon' = rc
    /\ error' = e
    /\ UNCHANGED << frame, handle, result, mutex_vars >>

IsErr(r) == r \notin {"updated", "unchanged"}

\* update_size_if_needed returns r (Ok: "updated" or "unchanged"; else the
\* error) to its caller: create (renegotiate after an update, then get_frame),
\* get_frame (go on to GetImage, or to create's fallback) or caps.
update_returns(r, ev, rc) ==
    CASE ctx = "create" /\ r = "updated" -> Continue("negotiate", ctx, ev, rc, error)
      [] ctx = "create" /\ r = "unchanged" ->
            Continue("update_size_if_needed", "get_frame", ev, rc, error)
      [] ctx = "create" /\ IsErr(r) -> Return("err", None, r)
      [] ctx = "get_frame" /\ IsErr(r) -> Continue("fallback", ctx, ev, rc, r)
      [] ctx = "get_frame" /\ ~IsErr(r) -> Continue("get_frame", ctx, ev, rc, error)
      [] ctx = "caps" /\ IsErr(r) -> Return("none", None, r)
      [] ctx = "caps" /\ ~IsErr(r) -> Continue("get_video_format", ctx, ev, rc, error)

\* should_update: the flag is set, or no size is cached.
ShouldUpdate(dirty, sz) == dirty \/ IsNone(sz)

\* The first critical section with the flag read and left as it is.
update_size_if_needed_unclearing ==
    /\ pc = "update_size_if_needed"
    /\ IF ShouldUpdate(needs_size_update, size)
       THEN /\ Goto("get_size")
            /\ events' = << >>
            /\ recon' = NoRecon
       ELSE update_returns("unchanged", << >>, NoRecon)
    /\ UNCHANGED << state_vars, watcher_vars, server_vars, produced_at, negotiated >>

\* The first critical section: read the dirty flag and clear it.
update_size_if_needed ==
    /\ pc = "update_size_if_needed"
    /\ IF ShouldUpdate(needs_size_update, size)
       THEN /\ needs_size_update' = FALSE
            /\ Goto("get_size")
            /\ events' = << >>
            /\ recon' = NoRecon
       ELSE /\ update_returns("unchanged", << >>, NoRecon)
            /\ UNCHANGED needs_size_update
    /\ UNCHANGED << connection, xid, show_cursor, position, size, frame_duration,
                    last_frame_time, resize_run, resize_handle, last_frame, visibility >>
    /\ UNCHANGED << watcher_vars, server_vars, produced_at, negotiated >>

\* get_size: get_connection and the GetGeometry request, under the guard.
get_size ==
    /\ pc = "get_size"
    /\ CASE get_connection = "err" -> update_returns("XID", events, recon)
         [] get_connection = "panic" -> Panic(TRUE)
         [] get_connection = "ok" ->
                /\ Goto("get_size_reply")
                /\ UNCHANGED << events, recon >>
    /\ UNCHANGED << state_vars, watcher_vars, server_vars, produced_at, negotiated >>

\* ObjectImpl::property for "width" and "height", read while `sz` is cached:
\* size.unwrap_or(Size::default()).
property(name, sz) ==
    LET cached == IF IsSome(sz) THEN Unwrap(sz) ELSE [width |-> 0, height |-> 0]
    IN  IF name = "width" THEN cached.width ELSE cached.height

Notify(name, value, seen) == [kind |-> "notify", name |-> name, args |-> << value >>, seen |-> seen]
Resize(w, h, seen) == [kind |-> "signal", name |-> "resize", args |-> << w, h >>, seen |-> seen]

\* The resize signal without the comparison of the sizes around it.
SizeNotifications_unguarded(old, new) ==
    (IF IsNone(old) \/ new.width /= Unwrap(old).width
     THEN << Notify("width", new.width, old) >> ELSE << >>)
    \o (IF IsNone(old) \/ new.height /= Unwrap(old).height
        THEN << Notify("height", new.height, old) >> ELSE << >>)
    \o << Resize(new.width, new.height, old) >>

\* Both dimensions notified on any change of size.
SizeNotifications_both(old, new) ==
    IF IsNone(old) \/ Unwrap(old) /= new
    THEN << Notify("width", new.width, old), Notify("height", new.height, old),
            Resize(new.width, new.height, old) >>
    ELSE << >>

\* The notifications and the signal of one reconciliation, in order, each with
\* the cached size a property read would see when it is delivered.
SizeNotifications(old, new) ==
    IF IsNone(old) \/ Unwrap(old) /= new
    THEN (IF IsNone(old) \/ new.width /= Unwrap(old).width
          THEN << Notify("width", new.width, old) >> ELSE << >>)
         \o (IF IsNone(old) \/ new.height /= Unwrap(old).height
             THEN << Notify("height", new.height, old) >> ELSE << >>)
         \o << Resize(new.width, new.height, old) >>
    ELSE << >>

\* The GetGeometry reply: the position is stored under get_size's guard; then
\* the comparison with the cached size, the notifications and size.insert(new).
get_size_reply ==
    /\ pc = "get_size_reply"
    /\ \E ok \in BOOLEAN :
        IF ok
        THEN LET new == [width |-> win.width, height |-> win.height] IN
             /\ position' = Some([x |-> win.x, y |-> win.y])
             /\ events' = SizeNotifications(size, new)
             /\ recon' = [old |-> size, new |-> Some(new), old_pos |-> position,
                          new_pos |-> Some([x |-> win.x, y |-> win.y])]
             /\ size' = Some(new)
             /\ Goto("get_window_visibility")
        ELSE /\ update_returns("GetGeometry", events, recon)
             /\ UNCHANGED << position, size >>
    /\ UNCHANGED << connection, xid, show_cursor, needs_size_update, frame_duration,
                    last_frame_time, resize_run, resize_handle, last_frame, visibility >>
    /\ UNCHANGED << watcher_vars, server_vars, produced_at, negotiated >>

\* get_window_visibility: get_connection and the GetProperty request.
get_window_visibility ==
    /\ pc = "get_window_visibility"
    /\ CASE get_connection = "err" -> update_returns("XID", events, recon)
         [] get_connection = "panic" -> Panic(TRUE)
         [] get_connection = "ok" ->
                /\ Goto("get_window_visibility_reply")
                /\ UNCHANGED << events, recon >>
    /\ UNCHANGED << state_vars, watcher_vars, server_vars, produced_at, negotiated >>

\* The visibility a GetProperty reply is classified as.
Classify(h) == IF h THEN "Hidden" ELSE "Visible"

\* The GetProperty reply, classified; the visibility is stored and notified
\* when it differs from the cached one.
get_window_visibility_reply ==
    /\ pc = "get_window_visibility_reply"
    /\ \E ok \in BOOLEAN :
        IF ok
        THEN LET new == Classify(hidden) IN
             /\ visibility' = new
             /\ update_returns("updated",
                               IF new /= visibility
                               THEN Append(events, Notify("visibility", new, size))
                               ELSE events,
                               recon)
        ELSE /\ update_returns("GetProperty", events, recon)
             /\ UNCHANGED visibility
    /\ UNCHANGED << connection, xid, show_cursor, needs_size_update, position, size,
                    frame_duration, last_frame_time, resize_run, resize_handle, last_frame >>
    /\ UNCHANGED << watcher_vars, server_vars, produced_at, negotiated >>

\* ------------------------------------------------------------ create
\* gst::ClockTime::default(), which create uses as the current time.
CurrentTime == 0

\* The call lies inside the frame interval that began when last_frame was captured.
WithinInterval ==
    /\ IsSome(last_frame)
    /\ IsSome(produced_at)
    /\ now - Unwrap(produced_at) < frame_duration

\* The throttle check of create: "fetch" or "throttled".
Throttle(lft, fd, lf) ==
    IF IsSome(lft)
    THEN IF CurrentTime - Unwrap(lft) >= fd THEN "fetch"
         ELSE IF IsSome(lf) THEN "throttled" ELSE "fetch"
    ELSE "fetch"

\* last_frame_time after the throttle check.
NextFrameTime(lft, fd) ==
    IF IsSome(lft) /\ CurrentTime - Unwrap(lft) >= fd THEN Some(CurrentTime) ELSE lft

\* create is called: the throttle check, under one guard.
create ==
    /\ Callable
    /\ fetches < MaxFetches
    /\ last_frame_time' = NextFrameTime(last_frame_time, frame_duration)
    /\ IF Throttle(last_frame_time, frame_duration, last_frame) = "throttled"
       THEN /\ result' = [Begin("create") EXCEPT !.outcome = "throttled",
                                                   !.frame = last_frame,
                                                   !.within = WithinInterval]
            /\ UNCHANGED host_vars
       ELSE /\ result' = [Begin("create") EXCEPT !.within = WithinInterval]
            /\ pc' = "update_size_if_needed"
            /\ ctx' = "create"
            /\ UNCHANGED << frame, handle, error >>
    /\ UNCHANGED << connection, xid, show_cursor, needs_size_update, position, size,
                    frame_duration, resize_run, resize_handle, last_frame, visibility >>
    /\ UNCHANGED << mutex_vars, watcher_vars, server_vars, events, recon, produced_at, negotiated >>

\* self.negotiate() after a size update: the base class renegotiates, or fails.
negotiate ==
    /\ pc = "negotiate"
    /\ negotiated' = size
    /\ \E ok \in BOOLEAN :
        IF ok
        THEN Continue("update_size_if_needed", "get_frame", events, recon, error)
        ELSE Return("err", None, "negotiate")
    /\ UNCHANGED << state_vars, watcher_vars, server_vars, produced_at >>

\* get_frame after its update_size_if_needed: get_connection and the GetImage
\* request over the cached size, under the guard.
get_frame ==
    /\ pc = "get_frame"
    /\ CASE get_connection = "err" -> Continue("fallback", ctx, events, recon, "XID")
         [] get_connection = "panic" -> Panic(TRUE)
         [] get_connection = "ok" ->
                /\ Goto("get_frame_reply")
                /\ UNCHANGED << events, recon >>
    /\ UNCHANGED << state_vars, watcher_vars, server_vars, produced_at, negotiated >>

\* The buffer get_frame builds from a GetImage reply.
Buffer(id, sz, fd) == [id |-> id, size |-> sz, duration |-> fd]

\* The GetImage reply with the buffer cached as soon as it is built.
get_frame_reply_cached ==
    /\ pc = "get_frame_reply"
    /\ \E ok \in BOOLEAN :
        IF ok
        THEN /\ frame' = Some(Buffer(fetches + 1, Unwrap(size), frame_duration))
             /\ last_frame' = frame'
             /\ fetches' = fetches + 1
             /\ pc' = "cursor"
             /\ UNCHANGED error
        ELSE /\ pc' = "fallback"
             /\ error' = "GetImage"
             /\ UNCHANGED << frame, fetches, last_frame >>
    /\ UNCHANGED << connection, xid, show_cursor, needs_size_update, position, size,
                    frame_duration, last_frame_time, resize_run, resize_handle, visibility >>
    /\ UNCHANGED << mutex_vars, ctx, handle, watcher_vars, win, hidden, now, platform,
                    observer_vars >>

\* The GetImage reply: a new buffer with the frame interval as its duration.
get_frame_reply ==
    /\ pc = "get_frame_reply"
    /\ \E ok \in BOOLEAN :
        IF ok
        THEN /\ frame' = Some(Buffer(fetches + 1, Unwrap(size), frame_duration))
             /\ fetches' = fetches + 1
             /\ pc' = "cursor"
             /\ UNCHANGED error
        ELSE /\ pc' = "fallback"
             /\ error' = "GetImage"
             /\ UNCHANGED << frame, fetches >>
    /\ UNCHANGED << state_vars, mutex_vars, ctx, handle, watcher_vars, win, hidden, now, platform,
                    observer_vars >>

\* No fallback: a failed get_frame always fails the pull.
Fallback_none(lf) == "err"

\* What create returns when get_frame failed.
Fallback(lf) == IF IsSome(lf) THEN "fallback" ELSE "err"

\* get_frame failed: the last frame if there is one, else a flow error.
create_fallback ==
    /\ pc = "fallback"
    /\ Return(Fallback(last_frame), last_frame, error)
    /\ UNCHANGED << state_vars, watcher_vars, server_vars, produced_at, negotiated >>

\* The outcome of cursor_is_in_bounds before its request: get_connection, then
\* the position/size check.
CursorCheck ==
    IF get_connection = "ok" /\ (IsNone(position) \/ IsNone(size)) THEN "err"
    ELSE get_connection

\* The cursor step of create: nothing without show_cursor; else
\* cursor_is_in_bounds up to its QueryPointer request.
create_cursor ==
    /\ pc = "cursor"
    /\ IF ~show_cursor
       THEN /\ Goto("store")
            /\ UNCHANGED << events, recon >>
       ELSE CASE CursorCheck = "err" -> Return("err", None, "cursor")
              [] CursorCheck = "panic" -> Panic(TRUE)
              [] CursorCheck = "ok" ->
                     /\ Goto("cursor_reply")
                     /\ UNCHANGED << events, recon >>
    /\ UNCHANGED << state_vars, watcher_vars, server_vars, produced_at, negotiated >>

Pointers == [x : 0..(MaxDim + 1), y : 0..MaxDim]

\* bounds_match of cursor_is_in_bounds, with same_screen.
InBounds(ptr, same_screen, pos, sz) ==
    /\ same_screen
    /\ ptr.x >= pos.x
    /\ ptr.y >= pos.y
    /\ ptr.x < pos.x + sz.width
    /\ ptr.y < pos.y + sz.height

\* The QueryPointer reply: an error, a pointer inside the window (todo!()),
\* or a pointer outside it.
cursor_reply ==
    /\ pc = "cursor_reply"
    /\ \E ok \in BOOLEAN, ptr \in Pointers, same_screen \in BOOLEAN :
        IF ~ok
        THEN Return("err", None, "QueryPointer")
        ELSE IF InBounds(ptr, same_screen, Unwrap(position), Unwrap(size))
        THEN Panic(FALSE)
        ELSE /\ Goto("store")
             /\ UNCHANGED << events, recon >>
    /\ UNCHANGED << state_vars, watcher_vars, server_vars, produced_at, negotiated >>

\* Set this frame as last, and return it.
create_store ==
    /\ pc = "store"
    /\ last_frame' = frame
    /\ produced_at' = Some(now)
    /\ Return("ok", frame, "none")
    /\ UNCHANGED << connection, xid, show_cursor, needs_size_update, position, size,
                    frame_duration, last_frame_time, resize_run, resize_handle, visibility >>
    /\ UNCHANGED << watcher_vars, server_vars, negotiated >>

\* ------------------------------------------------------------ caps and set_caps
\* caps is called: with no connection, open_connection; its failure returns
\* the pad template's caps.
caps ==
    /\ Callable
    /\ \E connected \in BOOLEAN :
        IF IsNone(connection) /\ ~connected
        THEN /\ result' = [Begin("caps") EXCEPT !.outcome = "template", !.error = "connect"]
             /\ UNCHANGED << connection, host_vars >>
        ELSE /\ connection' = IF IsNone(connection) THEN open_connection(connected)
                              ELSE connection
             /\ result' = Begin("caps")
             /\ pc' = "update_size_if_needed"
             /\ ctx' = "caps"
             /\ UNCHANGED << frame, handle, error >>
    /\ UNCHANGED << xid, show_cursor, needs_size_update, position, size, frame_duration,
                    last_frame_time, resize_run, resize_handle, last_frame, visibility >>
    /\ UNCHANGED << mutex_vars, watcher_vars, server_vars, events, recon, produced_at, negotiated >>

\* get_video_format: get_connection and its GetGeometry request.
get_video_format ==
    /\ pc = "get_video_format"
    /\ CASE get_connection = "err" -> Return("none", None, "XID")
         [] get_connection = "panic" -> Panic(TRUE)
         [] get_connection = "ok" ->
                /\ Goto("get_video_format_reply")
                /\ UNCHANGED << events, recon >>
    /\ UNCHANGED << state_vars, watcher_vars, server_vars, produced_at, negotiated >>

\* u32::swap_bytes, and u32::to_be on a build for `target`.
swap_bytes(w) == << w[4], w[3], w[2], w[1] >>
to_be(w, target) == IF target = "little" THEN swap_bytes(w) ELSE w

\* w >> 8
Shr8(w) == << 0, w[1], w[2], w[3] >>

RECURSIVE BitOr(_, _)
BitOr(a, b) ==
    IF a = 0 THEN b
    ELSE IF b = 0 THEN a
    ELSE (IF a % 2 = 1 \/ b % 2 = 1 THEN 1 ELSE 0) + 2 * BitOr(a \div 2, b \div 2)

\* a | b and !a on u32
Or32(a, b) == [i \in 1..4 |-> BitOr(a[i], b[i])]
Not32(a) == [i \in 1..4 |-> 255 - a[i]]
Zero32 == << 0, 0, 0, 0 >>

\* The endianness and the masks get_video_format hands to
\* gst_video_format_from_masks.
VideoFormat(p) ==
    LET little == p.bit_order = "LsbFirst"
        swapped == (p.bpp = 24 \/ p.bpp = 32) /\ little
        set == [i \in 1..3 |-> to_be(p.masks[i], p.target)]
        rgb == IF swapped
               THEN IF p.bpp = 24 THEN [i \in 1..3 |-> Shr8(set[i])] ELSE set
               ELSE p.masks
    IN  [bpp |-> p.bpp,
         endianness |-> IF swapped \/ ~little THEN "G_BIG_ENDIAN" ELSE "G_LITTLE_ENDIAN",
         red_mask |-> rgb[1],
         green_mask |-> rgb[2],
         blue_mask |-> rgb[3],
         alpha_mask |-> IF p.bpp = 32 THEN Not32(Or32(Or32(rgb[1], rgb[2]), rgb[3]))
                        ELSE Zero32]

\* The reply: the depth's pixmap format and the root visual are looked up with
\* unwrap(); then the caps carry the resolved format and the cached size.
get_video_format_reply ==
    /\ pc = "get_video_format_reply"
    /\ \E ok \in BOOLEAN, has_format \in BOOLEAN, has_visual \in BOOLEAN :
        IF ~ok
        THEN Return("none", None, "format")
        ELSE IF ~(has_format /\ has_visual)
        THEN Panic(TRUE)
        ELSE Return("caps", Some(VideoFormat(platform)), "none")
    /\ UNCHANGED << state_vars, watcher_vars, server_vars, produced_at, negotiated >>

\* Duration::from_millis(1000 * denom as u64 / numer as u64)
FrameDuration(fr) == (1000 * fr[2]) \div fr[1]

\* set_caps: not ready without a connection; the division is evaluated before
\* the guard is taken.
set_caps(fr) ==
    /\ Callable
    /\ IF IsNone(connection)
       THEN /\ Finish("set_caps", "err", "not ready")
            /\ UNCHANGED << frame_duration, mutex_vars >>
       ELSE IF fr[1] = 0
       THEN /\ Finish("set_caps", "panic", "panic")
            /\ panicked' = TRUE
            /\ UNCHANGED << frame_duration, poisoned >>
       ELSE /\ Finish("set_caps", "ok", "none")
            /\ frame_duration' = FrameDuration(fr)
            /\ UNCHANGED mutex_vars
    /\ UNCHANGED << connection, xid, show_cursor, needs_size_update, position, size,
                    last_frame_time, resize_run, resize_handle, last_frame, visibility >>
    /\ UNCHANGED << watcher_vars, server_vars, produced_at, negotiated >>

\* ------------------------------------------------------------ time
Tick ==
    /\ pc = "idle"
    /\ now < MaxTime
    /\ now' = now + 1
    /\ UNCHANGED << state_vars, mutex_vars, host_vars, watcher_vars, win, hidden, fetches, platform,
                    observer_vars >>

\* ------------------------------------------------------------ specifications
Xids == {1}

\* The base class starts a source that is not started; the element holds a
\* join handle exactly from a successful start to the following stop.
HostStart == IsNone(resize_handle) /\ start

StopStep == stop_take_handle \/ stop_join \/ stop_close

ReconcileStep ==
    \/ update_size_if_needed
    \/ get_size \/ get_size_reply
    \/ get_window_visibility \/ get_window_visibility_reply

FetchStep ==
    \/ negotiate
    \/ get_frame \/ get_frame_reply
    \/ create_fallback
    \/ create_cursor
    \/ create_store

CapsStep == get_video_format \/ get_video_format_reply

WatcherStep ==
    \E t \in Tids :
        \/ watcher_connect(t)
        \/ watcher_check_run(t)
        \/ watcher_poll(t)
        \/ watcher_mark(t)

\* The whole element: every virtual method and property, the watchers, the server.
Next ==
    \/ \E v \in Xids : set_xid(v)
    \/ \E b \in BOOLEAN : set_show_cursor(b)
    \/ HostStart
    \/ stop
    \/ caps
    \/ \E fr \in Framerates : set_caps(fr)
    \/ create
    \/ StopStep \/ ReconcileStep \/ FetchStep \/ cursor_reply \/ CapsStep
    \/ WatcherStep
    \/ ConfigureWindow \/ ChangeProperty

Spec == Init /\ [][Next]_vars

\* The lifecycle: start and stop against the watcher and the window's events.
NextLifecycle ==
    \/ \E v \in Xids : set_xid(v)
    \/ HostStart
    \/ stop
    \/ StopStep
    \/ WatcherStep
    \/ ConfigureWindow \/ ChangeProperty

SpecLifecycle == Init /\ [][NextLifecycle]_vars

\* The window is moved or resized between two calls, once the watchers have
\* polled the events of the change before.
PacedConfigure ==
    /\ pc = "idle"
    /\ \A t \in Tids : watcher[t].queue = << >>
    /\ ConfigureWindow

\* Geometry tracking: caps reconciles a window that is moved and resized
\* under a running watcher.
NextGeometry ==
    \/ \E v \in Xids : set_xid(v)
    \/ HostStart
    \/ caps
    \/ ReconcileStep \/ CapsStep
    \/ WatcherStep
    \/ PacedConfigure

SpecGeometry == Init /\ [][NextGeometry]_vars

\* Capture: every virtual method and property over a window of one size whose
\* properties change under a running watcher.
NextCapture ==
    \/ \E v \in Xids : set_xid(v)
    \/ \E b \in BOOLEAN : set_show_cursor(b)
    \/ HostStart
    \/ stop
    \/ caps
    \/ \E fr \in Framerates : set_caps(fr)
    \/ create
    \/ StopStep \/ ReconcileStep \/ FetchStep \/ cursor_reply \/ CapsStep
    \/ WatcherStep
    \/ ChangeProperty

SpecCapture == Init /\ [][NextCapture]_vars

\* Frame pacing: create calls spread over the wall clock.
NextClock ==
    \/ \E v \in Xids : set_xid(v)
    \/ HostStart
    \/ \E fr \in Framerates : set_caps(fr)
    \/ create
    \/ ReconcileStep \/ FetchStep
    \/ WatcherStep
    \/ ChangeProperty
    \/ Tick

SpecClock == Init /\ [][NextClock]_vars

\* ------------------------------------------------------------ properties checked
Named(name) == {i \in DOMAIN events : events[i].name = name}
CreateDone == pc = "idle" /\ result.op = "create"
StopDone == pc = "idle" /\ result.op = "stop"
CapsDone == pc = "idle" /\ result.op = "caps"

\* C1: a create called inside the frame interval that began with the last
\* captured frame sends no request and returns the cached frame; a create
\* called after the interval does not return it as a throttled frame.
C1_Throttling ==
    result.op = "create" =>
        /\ result.within => ~InFlight
        /\ (pc = "idle" /\ result.within) =>
                (result.outcome = "throttled" /\ result.frame = last_frame)
        /\ (pc = "idle" /\ ~result.within) => result.outcome /= "throttled"

\* C2: when the GetImage round trip failed, create returns the cached frame if
\* there is one and a flow error otherwise, and leaves last_frame as it was.
C2_Fallback ==
    [][(pc = "fallback" /\ error = "GetImage" /\ pc' /= pc) =>
          /\ pc' = "idle"
          /\ result'.op = "create"
          /\ last_frame' = last_frame
          /\ IF IsSome(last_frame)
             THEN result'.outcome = "fallback" /\ result'.frame = last_frame
             ELSE result'.outcome = "err" /\ result'.frame = None]_vars

C2_Witness ==
    /\ CreateDone
    /\ result.outcome = "fallback"
    /\ result.error = "GetImage"
    /\ IsSome(last_frame)
    /\ result.frame = last_frame

\* C3: from the return of stop on, no watcher thread writes needs_size_update.
C3_NoWriteAfterStop ==
    [][(result.op = "stop" /\ result.outcome = "ok") =>
          \A t \in Tids : ~(watcher[t].pc = "mark" /\ watcher'[t].pc = "check")]_vars

C3_Witness ==
    /\ StopDone
    /\ result.outcome = "ok"
    /\ \E t \in Tids : watcher[t].pc = "done"

\* C4: caps returns the template caps whenever the window id is unset, the
\* connection cannot be opened or the reconciliation fails.
C4_CapsDegrade ==
    (CapsDone /\ (IsNone(xid)
                  \/ result.error \in {"connect", "XID", "GetGeometry", "GetProperty"}))
        => result.outcome = "template"

\* C5: an operation that needs the connection and the window id finds both or
\* gets an error, and a create called without one of them returns a flow error.
C5_AbsentIsError ==
    /\ (pc \in {"get_size", "get_window_visibility", "get_frame", "get_video_format"}
        \/ (pc = "cursor" /\ show_cursor)) => get_connection /= "panic"
    /\ (CreateDone /\ (IsNone(connection) \/ IsNone(xid))) => result.outcome = "err"

\* C6: a stop that follows a watcher whose connection failed returns normally.
C6_WatcherDegrades ==
    (StopDone /\ \E t \in Tids : watcher[t].pc = "connfail") => result.outcome = "ok"

\* C7: a reconciliation whose re-queried size equals the cached size makes no
\* width or height notification and emits no resize signal.
C7_NoResizeOnMove ==
    (IsSome(recon.old) /\ recon.new = recon.old) =>
        (Named("width") = {} /\ Named("height") = {} /\ Named("resize") = {})

C7_Witness ==
    /\ IsSome(recon.old)
    /\ recon.new = recon.old
    /\ recon.new_pos /= recon.old_pos
    /\ Named("resize") = {}

\* C8: a reconciliation whose re-queried size differs from the cached size
\* notifies the width iff it changed and the height iff it changed, each once
\* with the new value, and emits one resize signal with the new width and height.
C8_ResizeOnChange ==
    (IsSome(recon.old) /\ IsSome(recon.new) /\ recon.new /= recon.old) =>
        LET old == Unwrap(recon.old)
            new == Unwrap(recon.new)
        IN  /\ Cardinality(Named("width")) = (IF new.width /= old.width THEN 1 ELSE 0)
            /\ Cardinality(Named("height")) = (IF new.height /= old.height THEN 1 ELSE 0)
            /\ Cardinality(Named("resize")) = 1
            /\ \A i \in Named("width") : events[i].args = << new.width >>
            /\ \A i \in Named("height") : events[i].args = << new.height >>
            /\ \A i \in Named("resize") : events[i].args = << new.width, new.height >>

C8_Witness ==
    /\ IsSome(recon.old)
    /\ IsSome(recon.new)
    /\ Unwrap(recon.new).width /= Unwrap(recon.old).width
    /\ Unwrap(recon.new).height = Unwrap(recon.old).height
    /\ Named("width") /= {}
    /\ Named("height") = {}
    /\ Named("resize") /= {}

\* C9: every stop returns normally and leaves no connection, run flag or join
\* handle behind, so that a second stop finds nothing to change.
C9_StopIdempotent ==
    StopDone =>
        /\ result.outcome = "ok"
        /\ IsNone(connection)
        /\ IsNone(resize_run)
        /\ IsNone(resize_handle)

\* C10: last_frame changes only in the step that ends a create successfully,
\* and to the frame that create returns; every successful create stores the
\* frame it returns.
C10_CacheOnSuccess ==
    [][/\ last_frame' /= last_frame =>
            /\ pc = "store"
            /\ pc' = "idle"
            /\ result'.op = "create"
            /\ result'.outcome = "ok"
            /\ IsSome(last_frame')
            /\ result'.frame = last_frame'
       /\ (pc /= "idle" /\ pc' = "idle" /\ result'.op = "create"
           /\ result'.outcome = "ok") => last_frame' = result'.frame]_vars

C10_Witness ==
    /\ CreateDone
    /\ result.outcome = "err"
    /\ result.error = "QueryPointer"
    /\ IsSome(last_frame)
    /\ fetches > Unwrap(last_frame).id

\* The round trips of the frame producer: GetGeometry, GetProperty, GetImage.
ProducerRoundTrip ==
    /\ result.op = "create"
    /\ pc \in {"get_size_reply", "get_window_visibility_reply", "get_frame_reply"}

\* C11: while a request of the geometry query, the visibility read or the image
\* fetch is in flight the host does not hold the state mutex, so a watcher that
\* is about to mark the dirty flag can do so.
C11_NoLockAcrossRoundTrip ==
    ProducerRoundTrip =>
        /\ ~LockHeld
        /\ \A t \in Tids : watcher[t].pc = "mark" => ENABLED watcher_mark(t)

\* A watcher's write of the dirty flag.
WatcherWrites == \E t \in Tids : watcher[t].pc = "mark" /\ watcher'[t].pc = "check"

\* C12: the step of a reconciliation that reads the dirty flag leaves it clear
\* and goes on to the geometry query iff the flag was set (or no size is
\* cached); the flag is set by the watchers' writes only and cleared by that
\* step only, so a reconciliation no watcher wrote into ends with it clear.
C12_ReadAndClear ==
    [][/\ (pc = "update_size_if_needed" /\ pc' /= pc) =>
              /\ needs_size_update' = FALSE
              /\ (pc' = "get_size") <=> (needs_size_update \/ IsNone(size))
       /\ (~needs_size_update /\ needs_size_update') => WatcherWrites
       /\ (needs_size_update /\ ~needs_size_update') =>
              (pc = "update_size_if_needed" /\ pc' = "get_size")]_vars

C12_Witness ==
    /\ result.op = "create"
    /\ pc = "get_size"
    /\ IsSome(size)
    /\ ~needs_size_update
    /\ \E t \in Tids : watcher[t].pc = "check"

\* A successful start has not yet been followed by a stop: the join handle is
\* held from the one to the other.
Started == IsSome(resize_handle) \/ (result.op = "stop" /\ pc /= "idle")

\* C13: while no call has panicked, the element holds a connection only from
\* a successful start to the stop that follows it.
C13_ConnectionLifetime ==
    (IsSome(connection) /\ ~panicked) => Started

\* Restart: start and stop called in any order, start also on an element that
\* holds a run flag and a join handle already.
NextRestart ==
    \/ \E v \in Xids : set_xid(v)
    \/ start
    \/ stop
    \/ StopStep
    \/ WatcherStep
    \/ ChangeProperty

SpecRestart == Init /\ [][NextRestart]_vars

\* C14: when stop has returned, the run flag of every watcher thread spawned so
\* far is false and the thread has ended.
C14_NoDanglingWatcher ==
    (StopDone /\ result.outcome = "ok") =>
        \A t \in 1..spawned : ~run[t] /\ watcher[t].pc = "done"

\* C15: a set_caps call on an element with a connection returns Ok and stores
\* floor(1000 * denominator / numerator) milliseconds as the frame interval, for
\* every framerate of the advertised range, 0/1 included.
C15_FrameInterval ==
    [][\A fr \in Framerates :
          (set_caps(fr) /\ IsSome(connection)) =>
              /\ result'.outcome = "ok"
              /\ fr[1] * frame_duration' <= 1000 * fr[2]
              /\ 1000 * fr[2] < fr[1] * (frame_duration' + 1)]_vars

\* Format resolution: caps on every platform.
NextFormat ==
    \/ \E v \in Xids : set_xid(v)
    \/ caps
    \/ ReconcileStep \/ CapsStep

SpecFormat == InitFormat /\ [][NextFormat]_vars

\* C16: with 24 or 32 bits per pixel on a display of little-endian order the
\* format caps resolves is big-endian and each colour mask is the byte-swap of
\* the visual's mask (shifted right by 8 bits at 24 bits per pixel); otherwise
\* the order and the masks are the raw ones; the alpha mask is the complement
\* of the three colour masks at 32 bits per pixel and zero otherwise.
C16_Canonicalization ==
    (CapsDone /\ result.outcome = "caps") =>
        LET f == Unwrap(result.frame)
            canon == platform.bpp \in {24, 32} /\ platform.bit_order = "LsbFirst"
            Expected(w) ==
                IF ~canon THEN w
                ELSE IF platform.bpp = 24 THEN << 0, w[4], w[3], w[2] >>
                ELSE << w[4], w[3], w[2], w[1] >>
        IN  /\ f.endianness = (IF canon \/ platform.bit_order = "MsbFirst"
                               THEN "G_BIG_ENDIAN" ELSE "G_LITTLE_ENDIAN")
            /\ f.red_mask = Expected(platform.masks[1])
            /\ f.green_mask = Expected(platform.masks[2])
            /\ f.blue_mask = Expected(platform.masks[3])
            /\ \A i \in 1..4 :
                  f.alpha_mask[i] =
                      IF platform.bpp = 32
                      THEN 255 - BitOr(BitOr(f.red_mask[i], f.green_mask[i]), f.blue_mask[i])
                      ELSE 0

\* The steps of watcher thread t.
WatcherThread(t) ==
    \/ watcher_connect(t)
    \/ watcher_check_run(t)
    \/ watcher_poll(t)
    \/ watcher_mark(t)

\* The lifecycle under a fair scheduler: the host thread goes on with a stop
\* it has begun and every watcher thread goes on whenever it can.
SpecLifecycleFair ==
    /\ SpecLifecycle
    /\ WF_vars(StopStep)
    /\ \A t \in Tids : WF_vars(WatcherThread(t))

\* C17: a stop that has begun ends.
C17_StopReturns ==
    (result.op = "stop" /\ pc /= "idle") ~> (pc = "idle")

\* Resizing under capture: create calls on a window that is moved and resized
\* between calls, under a running watcher.
NextResize ==
    \/ \E v \in Xids : set_xid(v)
    \/ HostStart
    \/ create
    \/ ReconcileStep \/ FetchStep
    \/ WatcherStep
    \/ PacedConfigure

SpecResize == Init /\ [][NextResize]_vars

\* C18: once create has called negotiate(), every GetImage request of create
\* asks for the size that was cached at the last such call, and a create whose
\* negotiate() failed returns a flow error.
C18_RenegotiationTracksGeometry ==
    /\ (result.op = "create" /\ pc = "get_frame_reply" /\ IsSome(negotiated)) =>
            negotiated = size
    /\ (CreateDone /\ result.error = "negotiate") => result.outcome = "err"

\* Watcher t polls a ConfigureNotify and classifies it.
PollsConfigure(t) ==
    /\ watcher[t].pc = "poll"
    /\ watcher[t].queue /= << >>
    /\ Head(watcher[t].queue).type = "ConfigureNotify"
    /\ watcher'[t].pc /= "poll"

\* C19: the watcher goes on to set the dirty flag for a ConfigureNotify iff it
\* is the first it polls or its size differs from the size of the one before.
C19_SizeFilter ==
    [][\A t \in Tids :
          PollsConfigure(t) =>
              ((watcher'[t].pc = "mark") <=>
                  (IsNone(watcher[t].last_size) \/ Head(watcher[t].queue).resized))]_vars

\* The errors of the round trips of a create call.
RoundTripErrors == {"GetGeometry", "GetProperty", "GetImage", "QueryPointer"}

\* C20: a create in which a round trip failed while a frame was cached returns
\* the cached frame; one that failed with no frame cached returns a flow error.
C20_AbsorbRoundTripErrors ==
    (CreateDone /\ result.error \in RoundTripErrors) =>
        IF IsSome(last_frame)
        THEN result.outcome = "fallback" /\ result.frame = last_frame
        ELSE result.outcome = "err"

\* The QueryPointer reply of create arrives and is not an error.
PointerQueried ==
    /\ pc = "cursor_reply"
    /\ pc' /= pc
    /\ ~(pc' = "idle" /\ result'.error = "QueryPointer")

\* C21: with show-cursor set, a create whose GetImage and QueryPointer requests
\* both succeeded goes on with the frame it fetched, wherever the pointer is,
\* and then stores that frame as last_frame and returns it.
C21_OverlayIsStub ==
    [][/\ PointerQueried => (pc' = "store" /\ frame' = frame)
       /\ (pc = "store" /\ pc' /= pc) =>
              /\ result'.outcome = "ok"
              /\ result'.frame = frame
              /\ last_frame' = frame]_vars

\* C22: whatever the pixmap formats and the visuals of the display, the step of
\* caps that resolves the format ends caps with caps or with none: it does not
\* panic and it changes nothing in the state or its mutex.
C22_FormatErrorIsOutcome ==
    [][(pc = "get_video_format_reply" /\ pc' /= pc) =>
          /\ pc' = "idle"
          /\ result'.outcome \in {"caps", "none"}
          /\ UNCHANGED << state_vars, mutex_vars >>]_vars

\* C23: a handler of a width or height notification or of the resize signal
\* that reads the width and height properties gets the re-queried size.
C23_NotifyAfterStore ==
    IsSome(recon.new) =>
        \A i \in Named("width") \cup Named("height") \cup Named("resize") :
            /\ property("width", events[i].seen) = Unwrap(recon.new).width
            /\ property("height", events[i].seen) = Unwrap(recon.new).height

\* C24: when a create or caps call has ended on a failed GetGeometry or
\* GetProperty request of a reconciliation, the update is still pending: the
\* next reconciliation will query the geometry and the visibility again.
C24_DirtyMarkKept ==
    (pc = "idle" /\ result.op \in {"create", "caps"}
     /\ result.error \in {"GetGeometry", "GetProperty"}) =>
        ShouldUpdate(needs_size_update, size)

====
